---- MODULE Spec2Model ----
(***************************************************************************)
(* wm-win-tool: store and restore desktop, geometry and shaded state of    *)
(* selected X11 windows (src/wm_win_tool.py).                              *)
(*                                                                         *)
(* Text is modelled as a sequence of one-character strings, so that the    *)
(* parsing and formatting code (split, join, rstrip, re.match) is computed *)
(* character by character as Python computes it.                           *)
(***************************************************************************)
EXTENDS Integers, Sequences, FiniteSets, TLC

VARIABLES
    win,        \* record harness: the Win under test
    line,       \* record harness: its file representation, "" before _tofile
    parsed,     \* record harness: Win._fromfile(line), None before it
    buf,        \* list harness: output of wmctrl -lGpx to load
    ftext,      \* list harness: text of the file to load
    A,          \* list harness: WinList._wl of the first list
    B,          \* list harness: WinList._wl of the second list
    ret,        \* list harness: what the last WinList operation returned
    xwins,      \* the windows of the X server, in client list order
    dir,        \* the session directory gpar.storelistdir
    now,        \* the clock, in seconds
    gpar,       \* last run: the option settings
    argv,       \* last run: the command and its arguments
    status,     \* last run: the exit status
    exitmsg,    \* last run: the message or log line of the exit taken
    curlist,    \* last run: the list fetch_winlist returned
    wmlstfn,    \* last run: the session restore selected, "" if none
    issued      \* last run: the requests restore sent to wmctrl

recVars == <<win, line, parsed>>
listVars == <<buf, ftext, A, B, ret>>
runVars == <<gpar, argv, status, exitmsg, curlist, wmlstfn, issued>>
vars == <<win, line, parsed, buf, ftext, A, B, ret,
          xwins, dir, now, gpar, argv, status, exitmsg, curlist, wmlstfn,
          issued>>

\* Python's None where a Win is expected
None == [none |-> TRUE]
\* no exception raised
NoExc == "no exception"
\* no WinList operation yet
NoRet == [op |-> "none", val |-> 0]

(***************************************************************************)
(* Bounds                                                                  *)
(***************************************************************************)
MaxStr == 2         \* longest class / title drawn for the record harness
MaxLen == 2         \* longest WinList built, most lines of a buffer loaded
MaxClock == 2       \* last second of the clock

(***************************************************************************)
(* Text helpers                                                            *)
(***************************************************************************)
SP == " "
NL == "\n"
CommaSpace == <<",", SP>>

\* the characters str.split() treats as white space / rstrip() strips
Whitespace == {SP, "\t", "\r", NL}

StartsWith(s, t) == Len(s) >= Len(t) /\ SubSeq(s, 1, Len(t)) = t

\* str.find(sep) + 1: position of the first occurrence of sep in s, 0 if none
Find(s, sep) ==
    LET hits == {i \in 1..Len(s) : StartsWith(SubSeq(s, i, Len(s)), sep)}
    IN IF hits = {} THEN 0 ELSE CHOOSE i \in hits : \A j \in hits : i <= j

\* str.split(sep, maxsplit)
RECURSIVE split(_, _, _)
split(s, sep, maxsplit) ==
    LET i == Find(s, sep)
    IN IF maxsplit = 0 \/ i = 0
       THEN <<s>>
       ELSE <<SubSeq(s, 1, i - 1)>>
            \o split(SubSeq(s, i + Len(sep), Len(s)), sep, maxsplit - 1)

RECURSIVE lstrip(_)
lstrip(s) ==
    IF s # <<>> /\ Head(s) \in Whitespace THEN lstrip(Tail(s)) ELSE s

\* str.split(maxsplit = n): split on runs of white space
RECURSIVE split_ws(_, _)
split_ws(s, maxsplit) ==
    LET t == lstrip(s)
        ws == {i \in 1..Len(t) : t[i] \in Whitespace}
        n == IF ws = {} THEN Len(t) + 1
             ELSE CHOOSE i \in ws : \A j \in ws : i <= j
    IN IF t = <<>> THEN <<>>
       ELSE IF maxsplit = 0 THEN <<t>>
       ELSE <<SubSeq(t, 1, n - 1)>>
            \o split_ws(SubSeq(t, n, Len(t)), maxsplit - 1)

\* str.join
RECURSIVE join(_, _)
join(sep, parts) ==
    IF parts = <<>> THEN <<>>
    ELSE IF Len(parts) = 1 THEN parts[1]
    ELSE parts[1] \o sep \o join(sep, Tail(parts))

RECURSIVE rstrip(_)
rstrip(ln) ==
    IF ln # <<>> /\ ln[Len(ln)] \in Whitespace
    THEN rstrip(SubSeq(ln, 1, Len(ln) - 1))
    ELSE ln

\* all strings over alphabet cs of length at most n
RECURSIVE StrUpTo(_, _)
StrUpTo(cs, n) ==
    IF n = 0 THEN {<<>>}
    ELSE LET shorter == StrUpTo(cs, n - 1)
         IN shorter \cup {Append(s, c) : s \in shorter, c \in cs}

(***************************************************************************)
(* class Win                                                               *)
(***************************************************************************)
Win_fields == <<"winid", "desktop", "pid", "x", "y", "w", "h",
                "cls", "host", "title", "shaded">>
Win_defaults == <<<<"0">>, <<"-", "1">>, <<"0">>, <<"0">>, <<"0">>, <<"0">>,
                  <<"0">>, <<>>, <<>>, <<>>, <<"N">>>>
Win_storefields == <<"desktop", "shaded", "x", "y", "w", "h", "cls", "title">>

FieldIndex(key) == CHOOSE i \in 1..Len(Win_fields) : Win_fields[i] = key

\* Win(*args, **kwargs): positional values, defaults for the missing ones,
\* then the keyword overrides (kwargs is a function from field names)
Win(args, kwargs) ==
    [key \in {Win_fields[i] : i \in 1..Len(Win_fields)} |->
        IF key \in DOMAIN kwargs THEN kwargs[key]
        ELSE IF FieldIndex(key) <= Len(args) THEN args[FieldIndex(key)]
        ELSE Win_defaults[FieldIndex(key)]]

NoKw == [k \in {} |-> <<>>]

Win_fromstr(ln) == Win(split_ws(ln, Len(Win_fields) - 2), NoKw)

\* Win._fromfile as it would be without the maxsplit argument
Win_fromfile_nomaxsplit(ln) ==
    LET parts == split(ln, CommaSpace, Len(ln))
        n == IF Len(parts) < Len(Win_storefields) THEN Len(parts)
             ELSE Len(Win_storefields)
    IN Win(<<>>, [k \in {Win_storefields[i] : i \in 1..n} |->
                    parts[CHOOSE i \in 1..n : Win_storefields[i] = k]])

\* dict(zip(_storefields, parts)): zip stops at the shorter sequence
Win_fromfile(ln) ==
    LET parts == split(ln, CommaSpace, Len(Win_storefields) - 1)
        n == IF Len(parts) < Len(Win_storefields) THEN Len(parts)
             ELSE Len(Win_storefields)
    IN Win(<<>>, [k \in {Win_storefields[i] : i \in 1..n} |->
                    parts[CHOOSE i \in 1..n : Win_storefields[i] = k]])

Win_stored_tuple(self) ==
    [i \in 1..Len(Win_storefields) |-> self[Win_storefields[i]]]

Win_tofile(self) == join(CommaSpace, Win_stored_tuple(self))

cmp_all(self, other) ==
    IF other # None THEN Win_stored_tuple(self) = Win_stored_tuple(other)
    ELSE FALSE

cmp_desktop(self, other) ==
    IF other # None THEN self.desktop = other.desktop ELSE FALSE

cmp_shaded(self, other) ==
    IF other # None THEN self.shaded = other.shaded ELSE FALSE

\* cmp_geometry as it would be if it compared the position only
cmp_geometry_position(self, other) ==
    IF other # None THEN self.x = other.x /\ self.y = other.y ELSE FALSE

cmp_geometry(self, other) ==
    IF other # None
    THEN self.x = other.x /\ self.y = other.y
         /\ self.w = other.w /\ self.h = other.h
    ELSE FALSE

geostr(self) ==
    <<"0", ",">> \o self.x \o <<",">> \o self.y \o <<",">> \o self.w
    \o <<",">> \o self.h

Win_eq(self, other) ==
    IF other # None THEN self.title = other.title /\ self.cls = other.cls
    ELSE FALSE


\* Win.__lt__ compares natural_sort_key(title), then natural_sort_key(cls).
\* The key strips one layer of each wrapper pair in turn, lower-cases, and
\* splits off digit runs; the classes and titles drawn here hold no digits,
\* so the key is the one text chunk, compared by code point (locale C).
Wrappers == <<<<"[", "]">>, <<"(", ")">>, <<"{", "}">>, <<"\"", "\"">>,
              <<"'", "'">>>>

RECURSIVE unwrap(_, _)
unwrap(s, k) ==
    IF k > Len(Wrappers) \/ s = <<>> THEN s       \* IndexError ends the loop
    ELSE IF s[1] = Wrappers[k][1] /\ s[Len(s)] = Wrappers[k][2]
         THEN unwrap(SubSeq(s, 2, Len(s) - 1), k + 1)
         ELSE unwrap(s, k + 1)

\* ord(c) for the characters drawn in this model
CodePoint(c) ==
    CASE c = "\t" -> 9 [] c = NL -> 10 [] c = "\r" -> 13 [] c = SP -> 32
      [] c = "*" -> 42 [] c = "," -> 44 [] c = "-" -> 45 [] c = "." -> 46
      [] c = "0" -> 48 [] c = "1" -> 49 [] c = "2" -> 50 [] c = "3" -> 51
      [] c = "4" -> 52 [] c = "5" -> 53 [] c = "6" -> 54 [] c = "7" -> 55
      [] c = "8" -> 56 [] c = "9" -> 57
      [] c = "X" -> 88 [] c = "Y" -> 89 [] c = "[" -> 91 [] c = "]" -> 93
      [] c = "a" -> 97 [] c = "b" -> 98 [] c = "c" -> 99 [] c = "h" -> 104
      [] c = "l" -> 108 [] c = "m" -> 109 [] c = "p" -> 112 [] c = "q" -> 113
      [] c = "r" -> 114 [] c = "s" -> 115 [] c = "t" -> 116 [] c = "w" -> 119
      [] c = "x" -> 120 [] c = "y" -> 121
      [] OTHER -> 122

\* str.lower()
lower(c) == CASE c = "X" -> "x" [] c = "Y" -> "y" [] OTHER -> c

natural_sort_key(s) ==
    LET t == unwrap(s, 1) IN [i \in 1..Len(t) |-> CodePoint(lower(t[i]))]

\* Python's list comparison k1 < k2
RECURSIVE KeyLess(_, _)
KeyLess(k1, k2) ==
    IF k2 = <<>> THEN FALSE
    ELSE IF k1 = <<>> THEN TRUE
    ELSE IF Head(k1) # Head(k2) THEN Head(k1) < Head(k2)
    ELSE KeyLess(Tail(k1), Tail(k2))

Win_lt(self, other) ==
    IF self.title # other.title
    THEN KeyLess(natural_sort_key(self.title), natural_sort_key(other.title))
    ELSE IF self.cls # other.cls
    THEN KeyLess(natural_sort_key(self.cls), natural_sort_key(other.cls))
    ELSE FALSE

\* sorted(): a stable sort that only uses <
RECURSIVE insort(_, _)
insort(run, pivot) ==
    IF run = <<>> THEN <<pivot>>
    ELSE IF Win_lt(pivot, Head(run)) THEN <<pivot>> \o run
    ELSE <<Head(run)>> \o insort(Tail(run), pivot)

RECURSIVE sorted(_)
sorted(wl) ==
    IF wl = <<>> THEN <<>>
    ELSE insort(sorted(SubSeq(wl, 1, Len(wl) - 1)), wl[Len(wl)])

(***************************************************************************)
(* class WinList: the list self._wl                                        *)
(***************************************************************************)
\* the lines a buffer or a file is read as
splitlines(text) == split(text, <<NL>>, Len(text))

RECURSIVE AppendLive(_, _)
AppendLive(wl, lines) ==
    IF lines = <<>> THEN wl
    ELSE AppendLive(IF Head(lines) # <<>>
                    THEN Append(wl, Win_fromstr(Head(lines)))
                    ELSE wl,
                    Tail(lines))

\* WinList.fromstr: Win() takes any number of arguments, so no line raises
\* TypeError and every non-empty line is appended; returns the list
WinList_fromstr(wl, text) ==
    IF text # <<>> THEN AppendLive(wl, splitlines(text)) ELSE wl

RECURSIVE AppendStored(_, _)
AppendStored(wl, lines) ==
    IF lines = <<>> THEN wl
    ELSE AppendStored(IF rstrip(Head(lines)) # <<>>
                      THEN Append(wl, Win_fromfile(rstrip(Head(lines))))
                      ELSE wl,
                      Tail(lines))

\* WinList.fromfile on the text of a readable file
WinList_fromfile(wl, text) == AppendStored(wl, splitlines(text))

RECURSIVE StoredLines(_)
StoredLines(wl) ==
    IF wl = <<>> THEN <<>>
    ELSE Win_tofile(Head(wl)) \o <<NL>> \o StoredLines(Tail(wl))

\* WinList.tofile: the text written
WinList_tofile(wl) == StoredLines(sorted(wl))

\* WinList.tofile(fn) called: what it returns (None when it raises), the
\* exception that leaves it, and the text the file holds afterwards (None
\* when there is no file).  fault is "open" when open(fn, 'w') raises
\* OSError, "write" when the write of line number at does, "" when neither
\* does.  The handler formats its message with fd, which is bound by the
\* with statement only once open has returned.
WinList_tofile_call(wl, fault, at) ==
    IF wl = <<>>
    THEN [ret |-> 0, raised |-> NoExc, text |-> None]
    ELSE IF fault = "open"
    THEN [ret |-> None, raised |-> "UnboundLocalError", text |-> None]
    ELSE IF fault = "write"
    THEN [ret |-> 0, raised |-> NoExc,
          text |-> StoredLines(SubSeq(sorted(wl), 1, at - 1))]
    ELSE [ret |-> Len(wl), raised |-> NoExc, text |-> WinList_tofile(wl)]

\* WinList.match: self._wl[self._wl.index(win)] or None
match(wl, w) ==
    LET hits == {i \in 1..Len(wl) : Win_eq(wl[i], w)}
    IN IF hits = {} THEN None
       ELSE wl[CHOOSE i \in hits : \A j \in hits : i <= j]

\* WinList.__bool__
WinList_bool(wl) == wl # <<>>

\* WinList.__eq__
WinList_eq(self, other) ==
    IF WinList_bool(other)
    THEN /\ \A i \in 1..Len(self) : cmp_all(self[i], match(other, self[i]))
         /\ \A i \in 1..Len(other) : cmp_all(other[i], match(self, other[i]))
    ELSE FALSE

\* WinList.__iadd__ as it would be without the membership test
WinList_iadd_nocheck(wl, w) == [wl |-> Append(wl, w), raised |-> NoExc]

\* WinList.__iadd__: the list afterwards and the exception raised, if any
WinList_iadd(wl, w) ==
    IF \E i \in 1..Len(wl) : Win_eq(wl[i], w)
    THEN [wl |-> wl, raised |-> "WinDuplicate"]
    ELSE [wl |-> Append(wl, w), raised |-> NoExc]


(***************************************************************************)
(* The external gateways: wmctrl and xprop on the windows of the X server. *)
(* An X window is a record [winid, desktop, x, y, w, h, cls, title,        *)
(* wmstate], wmstate being the value xprop prints for _NET_WM_STATE.       *)
(***************************************************************************)
SHADED == "_NET_WM_STATE_SHADED"

\* text of a wmctrl -lGpx line for the given columns (pid 7, host h)
LiveLine(winid, desktop, x, y, w, h, cls, title) ==
    join(<<SP>>, <<winid, desktop, <<"7">>, x, y, w, h, cls, <<"h">>, title>>)

\* the lines of a text, each ended by a newline
Text(lines) == join(<<>>, [i \in 1..Len(lines) |-> lines[i] \o <<NL>>])

\* command('wmctrl', '-lGpx'): one line per window, in client list order
wmctrl_list(X) ==
    Text([i \in 1..Len(X) |->
            LiveLine(X[i].winid, X[i].desktop, X[i].x, X[i].y, X[i].w,
                     X[i].h, X[i].cls, X[i].title)])

\* xprop(winid, '_NET_WM_STATE'): None (here "") when no window has that id
xprop(X, winid) ==
    IF \E i \in 1..Len(X) : X[i].winid = winid
    THEN X[CHOOSE i \in 1..Len(X) : X[i].winid = winid].wmstate
    ELSE ""

\* the three requests restore sends, as [op, winid, arg]
wmctrl_move_to_desktop(winid, desktop) ==
    [op |-> "-t", winid |-> winid, arg |-> desktop]

wmctrl_adjust_geometry(winid, geo) ==
    [op |-> "-e", winid |-> winid, arg |-> geo]

wmctrl_toggle_shaded(winid) ==
    [op |-> "-b", winid |-> winid, arg |-> <<"t">>]

\* _NET_WM_STATE of a window kept above the others, and of one that is
\* shaded too: xprop prints the atoms of the property separated by ", "
ABOVE == "_NET_WM_STATE_ABOVE"
SHADED_ABOVE == "_NET_WM_STATE_SHADED, _NET_WM_STATE_ABOVE"

\* the property after the shaded atom is added to it or removed from it
ToggleShaded(wmstate) ==
    CASE wmstate = "" -> SHADED
      [] wmstate = SHADED -> ""
      [] wmstate = ABOVE -> SHADED_ABOVE
      [] wmstate = SHADED_ABOVE -> ABOVE

\* what a request does to the window it names
Effect(xw, req) ==
    IF xw.winid # req.winid THEN xw
    ELSE IF req.op = "-t" THEN [xw EXCEPT !.desktop = req.arg]
    ELSE IF req.op = "-e"
    THEN LET g == split(req.arg, <<",">>, Len(req.arg))
         IN [xw EXCEPT !.x = g[2], !.y = g[3], !.w = g[4], !.h = g[5]]
    ELSE [xw EXCEPT !.wmstate = ToggleShaded(xw.wmstate)]

RECURSIVE Effects(_, _)
Effects(X, reqs) ==
    IF reqs = <<>> THEN X
    ELSE Effects([i \in 1..Len(X) |-> Effect(X[i], Head(reqs))], Tail(reqs))

(***************************************************************************)
(* filter_winlist and fetch_winlist                                        *)
(***************************************************************************)
\* fnmatch.fnmatch(name, pat) for patterns of literals, * and ?
RECURSIVE fnmatch(_, _)
fnmatch(name, pat) ==
    IF pat = <<>> THEN name = <<>>
    ELSE IF Head(pat) = "*"
    THEN fnmatch(name, Tail(pat)) \/ (name # <<>> /\ fnmatch(Tail(name), pat))
    ELSE IF Head(pat) = "?"
    THEN name # <<>> /\ fnmatch(Tail(name), Tail(pat))
    ELSE name # <<>> /\ Head(name) = Head(pat)
         /\ fnmatch(Tail(name), Tail(pat))

\* re.error for patterns of literals, . and *: nothing to repeat
re_error(pat) ==
    \E i \in 1..Len(pat) : pat[i] = "*" /\ (i = 1 \/ pat[i - 1] = "*")

\* re.match(pat, s) is not None, for such patterns: a prefix of s matches
RECURSIVE re_match(_, _)
re_match(pat, s) ==
    IF pat = <<>> THEN TRUE
    ELSE IF Len(pat) >= 2 /\ pat[2] = "*"
    THEN \/ re_match(SubSeq(pat, 3, Len(pat)), s)
         \/ /\ s # <<>>
            /\ (pat[1] = "." /\ Head(s) # NL) \/ pat[1] = Head(s)
            /\ re_match(pat, Tail(s))
    ELSE /\ s # <<>>
         /\ (pat[1] = "." /\ Head(s) # NL) \/ pat[1] = Head(s)
         /\ re_match(Tail(pat), Tail(s))

\* the inner match(patlist, win): "yes", "no", or "exit" for exit(2, ...)
RECURSIVE patmatch(_, _, _)
patmatch(patlist, s, regexp) ==
    IF patlist = <<>> THEN "no"
    ELSE IF regexp
    THEN IF re_error(Head(patlist)) THEN "exit"
         ELSE IF re_match(Head(patlist), s) THEN "yes"
         ELSE patmatch(Tail(patlist), s, regexp)
    ELSE IF fnmatch(s, Head(patlist)) THEN "yes"
    ELSE patmatch(Tail(patlist), s, regexp)

\* re.match('\[.*?\]', title): group(0), or "" when there is no match
bracket_match(title) ==
    LET closes == {i \in 2..Len(title) : title[i] = "]"}
    IN IF title # <<>> /\ title[1] = "[" /\ closes # {}
       THEN SubSeq(title, 1, CHOOSE i \in closes : \A j \in closes : i <= j)
       ELSE <<>>

\* dstlist += win inside the try: WinDuplicate leaves the for loop
RECURSIVE filter_loop(_, _, _)
filter_add(rest, dst, w, g) ==
    IF WinList_iadd(dst, w).raised = "WinDuplicate"
    THEN [wl |-> dst, exitmsg |-> ""]
    ELSE filter_loop(rest, WinList_iadd(dst, w).wl, g)

\* the for loop of filter_winlist over the windows still to visit
filter_loop(todo, dst, g) ==
    IF todo = <<>> THEN [wl |-> dst, exitmsg |-> ""]
    ELSE LET w == Head(todo)
             rest == Tail(todo)
         IN IF g.bracket
            THEN IF bracket_match(w.title) # <<>>
                 THEN filter_add(rest, dst,
                                 [w EXCEPT !.title = bracket_match(w.title)], g)
                 ELSE filter_loop(rest, dst, g)
            ELSE IF g.classes # <<>>
            THEN CASE patmatch(g.classes, w.cls, g.regexp) = "exit" ->
                        [wl |-> dst, exitmsg |-> "error in regexp"]
                   [] patmatch(g.classes, w.cls, g.regexp) = "yes" ->
                        filter_add(rest, dst, w, g)
                   [] OTHER -> filter_loop(rest, dst, g)
            ELSE IF g.titles # <<>>
            THEN CASE patmatch(g.titles, w.title, g.regexp) = "exit" ->
                        [wl |-> dst, exitmsg |-> "error in regexp"]
                   [] patmatch(g.titles, w.title, g.regexp) = "yes" ->
                        filter_add(rest, dst, w, g)
                   [] OTHER -> filter_loop(rest, dst, g)
            ELSE filter_add(rest, dst, w, g)

\* filter_winlist(srclist): the list returned, or the exit(2, ...) taken
filter_winlist(srclist, g, X) ==
    LET f == filter_loop(sorted(srclist), <<>>, g)
    IN [wl |-> [i \in 1..Len(f.wl) |->
                   [f.wl[i] EXCEPT !.shaded =
                       IF xprop(X, f.wl[i].winid) = SHADED
                       THEN <<"S">> ELSE <<"N">>]],
        exitmsg |-> f.exitmsg]

\* fetch_winlist(): wmctrl -lGpx fails without a display
fetch_winlist(X, g, tools) ==
    IF tools # "nodisplay" /\ Len(WinList_fromstr(<<>>, wmctrl_list(X))) # 0
    THEN filter_winlist(WinList_fromstr(<<>>, wmctrl_list(X)), g, X)
    ELSE [wl |-> <<>>, exitmsg |-> ""]

(***************************************************************************)
(* The session directory gpar.storelistdir: [exists, files], files a       *)
(* function from file names to file texts.                                 *)
(***************************************************************************)
Ext == <<".", "w", "m", "l", "s", "t">>

Digits == <<"0", "1", "2", "3", "4", "5", "6", "7", "8", "9">>

\* datetime.now().strftime(gpar.timestamp) in second t: like the real
\* %Y-%m-%d_%H-%M-%S text it has a fixed width, sorts by time, and is no
\* integer literal
strftime(t) == <<"t", Digits[t + 1]>>

\* sorted() of a set of strings
RECURSIVE SortNames(_)
SortNames(S) ==
    IF S = {} THEN <<>>
    ELSE LET key(n) == [i \in 1..Len(n) |-> CodePoint(n[i])]
             least == CHOOSE n \in S :
                        \A o \in S \ {n} : KeyLess(key(n), key(o))
         IN <<least>> \o SortNames(S \ {least})

\* store_filelist(maxcnt), maxcnt = 0 standing for None
store_filelist(files, maxcnt) ==
    LET all == SortNames({fn \in DOMAIN files : fnmatch(fn, <<"*">> \o Ext)})
        n == Len(all)
        cnt == IF maxcnt = 0 THEN n ELSE maxcnt
        from == IF cnt > 0 THEN (IF cnt >= n THEN 1 ELSE n - cnt + 1)
                ELSE (IF -cnt >= n THEN n + 1 ELSE 1 - cnt)
    IN SubSeq(all, from, n)

\* new_timestamp_filename as it would be without the os.path.exists test
new_timestamp_filename_nocheck(files, clk) ==
    [fn |-> strftime(clk) \o Ext, now |-> clk]

\* new_timestamp_filename: the first second from clk on whose name is free;
\* the loop sleeps through the taken ones
new_timestamp_filename(files, clk) ==
    LET free == {t \in clk..(clk + Cardinality(DOMAIN files)) :
                    strftime(t) \o Ext \notin DOMAIN files}
        t == CHOOSE t \in free : \A u \in free : t <= u
    IN [fn |-> strftime(t) \o Ext, now |-> t]

(***************************************************************************)
(* store                                                                   *)
(***************************************************************************)
\* what a command leaves behind: exit st, the message or log line of
\* the exit taken, and the state of the world
Outcome(st, msg, cur, fn, reqs, X, sd, clk) ==
    [status |-> st, exitmsg |-> msg, curlist |-> cur, wmlstfn |-> fn,
     issued |-> reqs, xwins |-> X, dir |-> sd, now |-> clk]

store(g, tools, sigint, X, sd, clk) ==
    LET fetched == fetch_winlist(X, g, tools)
        cur == fetched.wl
        quit(st, msg) == Outcome(st, msg, cur, <<>>, <<>>, X, sd, clk)
        last == store_filelist(sd.files, 1)
        unchanged ==
            /\ last # <<>>
            /\ WinList_eq(cur, WinList_fromfile(<<>>, sd.files[last[1]]))
        new == new_timestamp_filename(sd.files, clk)
    IN IF sigint THEN quit(5, "KeyboardInterrupt")
       ELSE IF fetched.exitmsg # "" THEN quit(2, fetched.exitmsg)
       ELSE IF ~WinList_bool(cur) THEN quit(3, "no match for selected windows")
       ELSE IF ~sd.exists THEN quit(8, "internal error:")
       ELSE IF unchanged /\ ~g.force THEN quit(0, "hasn't changed: not saved")
       ELSE Outcome(0, "stored", cur, <<>>, <<>>, X,
                    [sd EXCEPT !.files =
                        [fn \in DOMAIN sd.files \cup {new.fn} |->
                            IF fn = new.fn THEN WinList_tofile(cur)
                            ELSE sd.files[fn]]],
                    new.now)

(***************************************************************************)
(* restore                                                                 *)
(***************************************************************************)
strip(s) == rstrip(lstrip(s))

\* does int(s) succeed
IsInt(s) ==
    LET t == strip(s)
        u == IF t # <<>> /\ t[1] \in {"+", "-"} THEN Tail(t) ELSE t
    IN u # <<>> /\ \A i \in 1..Len(u) : \E d \in 1..Len(Digits) : u[i] = Digits[d]

RECURSIVE NatVal(_)
NatVal(u) ==
    IF u = <<>> THEN 0
    ELSE 10 * NatVal(SubSeq(u, 1, Len(u) - 1))
         + (CHOOSE d \in 0..9 : Digits[d + 1] = u[Len(u)])

\* int(s)
int(s) ==
    LET t == strip(s)
    IN IF t[1] = "-" THEN -NatVal(Tail(t))
       ELSE IF t[1] = "+" THEN NatVal(Tail(t))
       ELSE NatVal(t)

\* os.path.splitext(fn)[0] as it would be if it left the extension on
splitext_whole(fn) == fn

\* os.path.splitext(fn)[0]: cut at the last dot, unless only dots precede it
splitext(fn) ==
    LET dots == {i \in 1..Len(fn) : fn[i] = "."}
        last == CHOOSE i \in dots : \A j \in dots : j <= i
    IN IF dots # {} /\ \E j \in 1..(last - 1) : fn[j] # "."
       THEN SubSeq(fn, 1, last - 1)
       ELSE fn

\* the session restore selects: [fn, msg], fn = "" when it exits
select_session(params, slist) ==
    LET n == Len(slist)
        isint == params # <<>> /\ IsInt(params[1])
        which == IF params = <<>> THEN -1 ELSE int(params[1])
        ts == IF params # <<>> /\ ~isint THEN params[1] ELSE <<>>
        hits == {i \in 1..n : ts = slist[i] \/ splitext(slist[i]) = ts}
    IN IF slist = <<>>
       THEN [fn |-> <<>>, exitmsg |-> "no stored sessions (yet), try store"]
       ELSE IF params = <<>> \/ isint
       THEN IF which >= -n /\ which < n
            THEN [fn |-> slist[IF which < 0 THEN n + which + 1 ELSE which + 1],
                  exitmsg |-> ""]
            ELSE [fn |-> <<>>, exitmsg |-> "no such session"]
       ELSE IF ts # <<>> /\ hits # {}
       THEN [fn |-> slist[CHOOSE i \in hits : \A j \in hits : i <= j],
             exitmsg |-> ""]
       ELSE [fn |-> <<>>, exitmsg |-> "no such session"]

\* the requests restore sends for one stored window and its current match
adjust(cur, sto) ==
    (IF ~cmp_desktop(cur, sto)
     THEN <<wmctrl_move_to_desktop(cur.winid, sto.desktop)>> ELSE <<>>)
    \o (IF ~cmp_geometry(cur, sto)
        THEN <<wmctrl_adjust_geometry(cur.winid, geostr(sto))>> ELSE <<>>)
    \o (IF ~cmp_shaded(cur, sto)
        THEN <<wmctrl_toggle_shaded(cur.winid)>> ELSE <<>>)

\* for sto in stolist: cur = curlist.match(sto); if cur: ...
RECURSIVE adjust_all(_, _)
adjust_all(curl, stos) ==
    IF stos = <<>> THEN <<>>
    ELSE (IF match(curl, Head(stos)) # None
          THEN adjust(match(curl, Head(stos)), Head(stos)) ELSE <<>>)
         \o adjust_all(curl, Tail(stos))

\* restore as it would be if it applied the last session before it
\* rejected its argument
restore_adjustfirst(params, g, tools, sigint, X, sd, clk) ==
    LET slist == store_filelist(sd.files, 0)
        sel == select_session(params, slist)
        fetched == fetch_winlist(X, g, tools)
        cur == fetched.wl
        pick == IF sel.exitmsg = "no such session" THEN slist[Len(slist)]
                ELSE sel.fn
        stolist == WinList_fromfile(<<>>, sd.files[pick])
        reqs == adjust_all(cur, sorted(stolist))
        quit(st, msg, c) == Outcome(st, msg, c, sel.fn, <<>>, X, sd, clk)
    IN IF ~sd.exists THEN quit(8, "internal error:", <<>>)
       ELSE IF sel.exitmsg = "no such session"
       THEN Outcome(2, sel.exitmsg, cur, <<>>, reqs, Effects(X, reqs), sd, clk)
       ELSE IF sel.exitmsg # "" THEN quit(2, sel.exitmsg, <<>>)
       ELSE IF sigint THEN quit(5, "KeyboardInterrupt", <<>>)
       ELSE IF fetched.exitmsg # "" THEN quit(2, fetched.exitmsg, cur)
       ELSE Outcome(0, "restore", cur, sel.fn, reqs, Effects(X, reqs), sd, clk)

restore(params, g, tools, sigint, X, sd, clk) ==
    LET sel == select_session(params, store_filelist(sd.files, 0))
        fetched == fetch_winlist(X, g, tools)
        cur == fetched.wl
        stolist == WinList_fromfile(<<>>, sd.files[sel.fn])
        reqs == adjust_all(cur, sorted(stolist))
        quit(st, msg, c) == Outcome(st, msg, c, sel.fn, <<>>, X, sd, clk)
    IN IF ~sd.exists THEN quit(8, "internal error:", <<>>)
       ELSE IF sel.exitmsg # "" THEN quit(2, sel.exitmsg, <<>>)
       ELSE IF sigint THEN quit(5, "KeyboardInterrupt", <<>>)
       ELSE IF fetched.exitmsg # "" THEN quit(2, fetched.exitmsg, cur)
       ELSE Outcome(0, "restore", cur, sel.fn, reqs, Effects(X, reqs), sd, clk)

(***************************************************************************)
(* curlist, list and main                                                  *)
(***************************************************************************)
\* curlist as it would be if it left with 2 when nothing matches
curlist_cmd_exit2(g, tools, sigint, X, sd, clk) ==
    LET fetched == fetch_winlist(X, g, tools)
        quit(st, msg) ==
            Outcome(st, msg, fetched.wl, <<>>, <<>>, X, sd, clk)
    IN IF sigint THEN quit(5, "KeyboardInterrupt")
       ELSE IF fetched.exitmsg # "" THEN quit(2, fetched.exitmsg)
       ELSE IF WinList_bool(fetched.wl) THEN quit(0, "curlist")
       ELSE quit(2, "no match")

curlist_cmd(g, tools, sigint, X, sd, clk) ==
    LET fetched == fetch_winlist(X, g, tools)
        quit(st, msg) ==
            Outcome(st, msg, fetched.wl, <<>>, <<>>, X, sd, clk)
    IN IF sigint THEN quit(5, "KeyboardInterrupt")
       ELSE IF fetched.exitmsg # "" THEN quit(2, fetched.exitmsg)
       ELSE IF WinList_bool(fetched.wl) THEN quit(0, "curlist")
       ELSE quit(3, "no match")

liststore(params, X, sd, clk) ==
    LET quit(st, msg) == Outcome(st, msg, <<>>, <<>>, <<>>, X, sd, clk)
    IN IF params # <<>> /\ ~IsInt(params[1])
       THEN quit(2, "invalid list max argument")
       ELSE IF ~sd.exists THEN quit(8, "internal error:")
       ELSE quit(0, "list")

\* main(): opts is what getopt made of the options ("error", "help",
\* "version" or "ok"), g the gpar settings they give, cmd and params the
\* remaining arguments (cmd = "" when there is none)
main(opts, g, appname, cmd, params, tools, sigint, X, sd, clk) ==
    LET quit(st, msg) == Outcome(st, msg, <<>>, <<>>, <<>>, X, sd, clk)
        symlink == cmd = "" /\ appname \in {"wm-win-restore", "wm-win-store"}
        gp == IF symlink THEN [g EXCEPT !.bracket = TRUE] ELSE g
        c == IF cmd # "" THEN cmd
             ELSE IF appname = "wm-win-restore" THEN "restore"
             ELSE IF appname = "wm-win-store" THEN "store"
             ELSE ""
    IN IF opts = "error" THEN quit(1, "getopt.error")
       ELSE IF opts = "help" THEN quit(0, "usage")
       ELSE IF opts = "version" THEN quit(0, "version")
       ELSE IF tools = "nowmctrl" THEN quit(2, "wmctrl -h: program not found")
       ELSE IF tools = "noxprop"
       THEN quit(2, "xprop -version: program not found")
       ELSE IF c = "" THEN quit(2, "missing command")
       ELSE IF c = "store" THEN store(gp, tools, sigint, X, sd, clk)
       ELSE IF c = "restore"
       THEN restore(params, gp, tools, sigint, X, sd, clk)
       ELSE IF c = "curlist" THEN curlist_cmd(gp, tools, sigint, X, sd, clk)
       ELSE IF c = "list" THEN liststore(params, X, sd, clk)
       ELSE quit(2, "invalid command")

(***************************************************************************)
(* One run of the program: main() with the given command line, against the *)
(* windows, the session directory and the clock it finds.                  *)
(***************************************************************************)
\* gpar as the class body sets it
gpar0 == [force |-> FALSE, bracket |-> FALSE, regexp |-> FALSE,
          classes |-> <<>>, titles |-> <<>>]

NoArgv == [cmd |-> "", params |-> <<>>]

\* the run variables before any run
NoRun ==
    /\ gpar = gpar0 /\ argv = NoArgv /\ status = 0 /\ exitmsg = ""
    /\ curlist = <<>> /\ wmlstfn = <<>> /\ issued = <<>>

NoWorld == xwins = <<>> /\ dir = [exists |-> TRUE, files |-> <<>>] /\ now = 0

Run(opts, g, appname, cmd, params, tools, sigint) ==
    \E r \in {main(opts, g, appname, cmd, params, tools, sigint,
                  xwins, dir, now)} :
       /\ r.now <= MaxClock
       /\ gpar' = g
       /\ argv' = [cmd |-> cmd, params |-> params]
       /\ status' = r.status
       /\ exitmsg' = r.exitmsg
       /\ curlist' = r.curlist
       /\ wmlstfn' = r.wmlstfn
       /\ issued' = r.issued
       /\ xwins' = r.xwins
       /\ dir' = r.dir
       /\ now' = r.now
       /\ UNCHANGED <<recVars, listVars>>

\* a second passes
Tick ==
    /\ now < MaxClock
    /\ now' = now + 1
    /\ UNCHANGED <<xwins, dir, runVars, recVars, listVars>>

XWin(winid, desktop, geo, cls, title, wmstate) ==
    [winid |-> winid, desktop |-> desktop, x |-> geo[1], y |-> geo[2],
     w |-> geo[3], h |-> geo[4], cls |-> cls, title |-> title,
     wmstate |-> wmstate]

Geo0 == <<<<"0">>, <<"0">>, <<"1">>, <<"1">>>>

(***************************************************************************)
(* Store runs: with the windows as they are, the user stores again and     *)
(* again, with or without --force and selectors, while the clock advances. *)
(***************************************************************************)
Win1(title) == XWin(<<"p">>, <<"0">>, Geo0, <<"X">>, title, "")
Win2(title) == XWin(<<"q">>, <<"0">>, Geo0, <<"X">>, title, SHADED)

\* the windows open during the store runs: titles that end in a blank, are
\* empty, or start with a bracket fragment included
StoreWins ==
    {<<Win1(<<"a">>)>>, <<Win1(<<"a", SP>>)>>, <<Win1(<<>>)>>,
     <<Win1(<<"a">>), Win2(<<"b">>)>>,
     <<Win1(<<"[", "a", "]", SP, "b">>), Win2(<<"[", "b", "]">>)>>}

Selectors ==
    {gpar0, [gpar0 EXCEPT !.bracket = TRUE],
     [gpar0 EXCEPT !.classes = <<<<"X">>>>],
     [gpar0 EXCEPT !.titles = <<<<"a", "*">>>>]}

NoHarness ==
    /\ win = None /\ line = <<>> /\ parsed = None
    /\ buf = <<>> /\ ftext = <<>> /\ A = <<>> /\ B = <<>> /\ ret = NoRet

EmptyDir == [exists |-> TRUE, files |-> <<>>]

InitStore ==
    /\ xwins \in StoreWins
    /\ dir = EmptyDir
    /\ now = 0
    /\ NoRun
    /\ NoHarness

StoreRun ==
    \E sel \in Selectors, force \in BOOLEAN :
        Run("ok", [sel EXCEPT !.force = force], "wm-win-tool", "store", <<>>,
            "ok", FALSE)

NextStore == StoreRun \/ Tick

SpecStore == InitStore /\ [][NextStore]_vars

(***************************************************************************)
(* Filter runs: curlist with the selectors of the command line, on three   *)
(* windows some of which share class and title.                            *)
(***************************************************************************)
FilterTitles ==
    {<<"a">>, <<"b">>, <<"[", "a", "]", SP, "x">>, <<"[", "a", "]", SP, "y">>}

FilterWins ==
    {<<XWin(<<"p">>, <<"0">>, Geo0, <<"X">>, t1, ""),
       XWin(<<"q">>, <<"0">>, Geo0, <<"X">>, t2, SHADED),
       XWin(<<"r">>, <<"1">>, Geo0, c3, t3, "")>> :
        t1 \in FilterTitles, t2 \in FilterTitles, t3 \in FilterTitles,
        c3 \in {<<"X">>, <<"Y">>}}

FilterSelectors ==
    {gpar0, [gpar0 EXCEPT !.bracket = TRUE],
     [gpar0 EXCEPT !.classes = <<<<"X">>>>],
     [gpar0 EXCEPT !.titles = <<<<"b">>, <<"[", "*">>>>],
     [gpar0 EXCEPT !.titles = <<<<".", "a">>>>, !.regexp = TRUE],
     [gpar0 EXCEPT !.classes = <<<<"*">>>>, !.regexp = TRUE]}

InitFilter ==
    /\ xwins \in FilterWins
    /\ dir = EmptyDir
    /\ now = 0
    /\ NoRun
    /\ NoHarness

CurlistRun ==
    \E sel \in FilterSelectors :
        Run("ok", sel, "wm-win-tool", "curlist", <<>>, "ok", FALSE)

NextFilter == CurlistRun

SpecFilter == InitFilter /\ [][NextFilter]_vars

(***************************************************************************)
(* Restore runs: a session was stored, then the user moves, resizes,       *)
(* shades and closes windows and restores the session.                     *)
(***************************************************************************)
\* the windows at the time of the store, and the selectors of that store
RestoreWins ==
    {<<<<Win1(<<"a">>), Win2(<<"b">>)>>, gpar0>>,
     <<<<Win1(<<"a">>), Win2(<<"a", SP>>)>>, gpar0>>,
     <<<<Win1(<<"[", "a", "]", SP, "b">>), Win2(<<"b">>)>>,
       [gpar0 EXCEPT !.bracket = TRUE]>>}

\* Geo0, and Geo0 with another height
Geos == {Geo0, <<<<"0">>, <<"0">>, <<"1">>, <<"3">>>>}

InitRestore ==
    /\ \E c \in RestoreWins :
          /\ xwins = c[1]
          /\ dir = store(c[2], "ok", FALSE, c[1], EmptyDir, 0).dir
    /\ now = 0
    /\ NoRun
    /\ NoHarness

RestoreRun ==
    \E sel \in {gpar0, [gpar0 EXCEPT !.bracket = TRUE]} :
        Run("ok", sel, "wm-win-tool", "restore", <<>>, "ok", FALSE)

\* the user moves a window to the other desktop
UserMove ==
    \E i \in 1..Len(xwins) :
        /\ xwins' = [xwins EXCEPT ![i].desktop =
                        IF @ = <<"0">> THEN <<"1">> ELSE <<"0">>]
        /\ UNCHANGED <<dir, now, runVars, recVars, listVars>>

\* the user moves or resizes a window
UserResize ==
    \E i \in 1..Len(xwins), geo \in Geos :
        /\ xwins' = [xwins EXCEPT ![i].x = geo[1], ![i].y = geo[2],
                                  ![i].w = geo[3], ![i].h = geo[4]]
        /\ UNCHANGED <<dir, now, runVars, recVars, listVars>>

\* the user shades or unshades a window
UserShade ==
    \E i \in 1..Len(xwins) :
        /\ xwins' = [xwins EXCEPT ![i].wmstate = ToggleShaded(@)]
        /\ UNCHANGED <<dir, now, runVars, recVars, listVars>>

\* the user closes the window opened last
CloseWindow ==
    /\ Len(xwins) > 1
    /\ xwins' = SubSeq(xwins, 1, Len(xwins) - 1)
    /\ UNCHANGED <<dir, now, runVars, recVars, listVars>>

NextRestore == RestoreRun \/ UserMove \/ UserResize \/ UserShade \/ CloseWindow

SpecRestore == InitRestore /\ [][NextRestore]_vars

(***************************************************************************)
(* Restore runs on windows that the user also puts above the others, or    *)
(* takes back from there.                                                  *)
(***************************************************************************)
InitConverge ==
    /\ xwins = <<Win1(<<"a">>), Win2(<<"b">>)>>
    /\ dir = store(gpar0, "ok", FALSE, xwins, EmptyDir, 0).dir
    /\ now = 0
    /\ NoRun
    /\ NoHarness

\* the user toggles "always on top" of a window
UserAbove ==
    \E i \in 1..Len(xwins) :
        /\ xwins' = [xwins EXCEPT ![i].wmstate =
                        CASE @ = "" -> ABOVE
                          [] @ = ABOVE -> ""
                          [] @ = SHADED -> SHADED_ABOVE
                          [] @ = SHADED_ABOVE -> SHADED]
        /\ UNCHANGED <<dir, now, runVars, recVars, listVars>>

NextConverge == RestoreRun \/ UserMove \/ UserResize \/ UserShade \/ UserAbove

SpecConverge == InitConverge /\ [][NextConverge]_vars

(***************************************************************************)
(* Session selection: sessions pile up in the directory, one per second at *)
(* most, and restore is given an index, a timestamp, a file name or        *)
(* nothing.                                                                *)
(***************************************************************************)
\* str(k)
RECURSIVE NatStr(_)
NatStr(k) ==
    IF k < 10 THEN <<Digits[k + 1]>>
    ELSE NatStr(k \div 10) \o <<Digits[(k % 10) + 1]>>

str(k) == IF k < 0 THEN <<"-">> \o NatStr(-k) ELSE NatStr(k)

\* the indexes tried: two beyond the sessions there can be, on either side
Indexes == (-(MaxClock + 3))..(MaxClock + 2)

SelectArgs ==
    {<<>>, <<<<>>>>, <<<<"x">>>>, <<Ext>>}
    \cup {<<str(k)>> : k \in Indexes}
    \cup {<<strftime(t)>> : t \in 0..MaxClock}
    \cup {<<strftime(t) \o Ext>> : t \in 0..MaxClock}

\* a directory that holds a file which is no session
StrayDir == [exists |-> TRUE, files |-> (<<"1">> :> <<NL>>)]

InitSelect ==
    /\ xwins = <<Win1(<<"a">>)>>
    /\ dir \in {EmptyDir, StrayDir}
    /\ now = 0
    /\ NoRun
    /\ NoHarness

ForcedStoreRun ==
    Run("ok", [gpar0 EXCEPT !.force = TRUE], "wm-win-tool", "store", <<>>,
        "ok", FALSE)

SelectRun ==
    \E params \in SelectArgs :
        Run("ok", gpar0, "wm-win-tool", "restore", params, "ok", FALSE)

NextSelect == ForcedStoreRun \/ Tick \/ SelectRun

SpecSelect == InitSelect /\ [][NextSelect]_vars

(***************************************************************************)
(* Any command line: every command, with and without its tools, its        *)
(* directory, a display, windows, and an interrupt.                        *)
(***************************************************************************)
MainSelectors == {gpar0, [gpar0 EXCEPT !.classes = <<<<"*">>>>, !.regexp = TRUE]}

\* a directory with the session of a window that has changed desktop since
MovedDir ==
    store(gpar0, "ok", FALSE,
          <<XWin(<<"p">>, <<"1">>, Geo0, <<"X">>, <<"a">>, "")>>,
          EmptyDir, 0).dir

InitMain ==
    /\ xwins \in {<<>>, <<Win1(<<"a">>)>>}
    /\ dir \in {EmptyDir, [exists |-> FALSE, files |-> <<>>], MovedDir}
    /\ now = 0
    /\ NoRun
    /\ NoHarness

\* the program under its own name with any command, or under one of its
\* symlink names without
CmdLines ==
    {<<"wm-win-tool", cmd>> :
        cmd \in {"", "store", "restore", "curlist", "list", "bogus"}}
    \cup {<<"wm-win-store", "">>, <<"wm-win-restore", "">>}

MainRun ==
    \E opts \in {"ok", "error", "help", "version"},
       g \in MainSelectors,
       cl \in CmdLines,
       params \in {<<>>, <<<<"x">>>>},
       tools \in {"ok", "nowmctrl", "noxprop", "nodisplay"},
       sigint \in BOOLEAN :
        Run(opts, g, cl[1], cl[2], params, tools, sigint)

NextMain == MainRun \/ Tick

SpecMain == InitMain /\ [][NextMain]_vars

(***************************************************************************)
(* Record harness: a Win built from any field values is written with       *)
(* _tofile and read back with _fromfile.                                   *)
(***************************************************************************)
FieldChars == {"a", ",", SP}

InitWin ==
    /\ win \in {Win(<<<<"p">>, d, <<"7">>, <<"0">>, <<"0">>, <<"1">>, h,
                      c, <<"h">>, t, <<"N">>>>, NoKw) :
                  d \in {<<"0">>, <<"-", "1">>},
                  h \in {<<"1">>, <<"1", ",">>, <<>>},
                  c \in StrUpTo(FieldChars, MaxStr),
                  t \in StrUpTo(FieldChars, MaxStr)}
    /\ line = <<>>
    /\ parsed = None
    /\ buf = <<>> /\ ftext = <<>> /\ A = <<>> /\ B = <<>> /\ ret = NoRet
    /\ NoWorld /\ NoRun

Tofile ==
    /\ line = <<>>
    /\ line' = Win_tofile(win)
    /\ UNCHANGED <<win, parsed, listVars, xwins, dir, now, runVars>>

Fromfile ==
    /\ line # <<>>
    /\ parsed = None
    /\ parsed' = Win_fromfile(line)
    /\ UNCHANGED <<win, line, listVars, xwins, dir, now, runVars>>

NextWin == Tofile \/ Fromfile

SpecWin == InitWin /\ [][NextWin]_vars


(***************************************************************************)
(* List harness: list A is loaded from wmctrl output and grown with +=,    *)
(* list B is loaded from a file; the two are compared with ==.             *)
(***************************************************************************)
LineA == LiveLine(<<"p">>, <<"0">>, <<"0">>, <<"0">>, <<"1">>, <<"1">>,
                  <<"X">>, <<"a">>)
\* another window of the same class and title, on another desktop
LineA2 == LiveLine(<<"q">>, <<"1">>, <<"0">>, <<"0">>, <<"1">>, <<"1">>,
                   <<"X">>, <<"a">>)
LineB == LiveLine(<<"r">>, <<"0">>, <<"0">>, <<"0">>, <<"1">>, <<"1">>,
                  <<"X">>, <<"b">>)
\* a line that ends after the desktop column
LineShort == <<"s", SP, "0">>
\* a stored line that ends after the shaded column
StoredShort == <<"1", ",", SP, "N">>

LiveBufs ==
    {<<>>} \cup
    {Text(ls) : ls \in {<<LineA>>, <<LineA, LineA2>>, <<LineA, LineB>>,
                        <<LineShort, LineA>>, <<LineShort>>, <<LineA2>>}}

Stored(ln) == Win_tofile(Win_fromstr(ln))

FileTexts ==
    {<<>>} \cup
    {Text(ls) : ls \in {<<Stored(LineA)>>, <<Stored(LineA), Stored(LineA2)>>,
                        <<Stored(LineA), Stored(LineB)>>,
                        <<StoredShort, Stored(LineA)>>, <<StoredShort>>,
                        <<Stored(LineA2)>>}}

InitList ==
    /\ buf \in LiveBufs
    /\ ftext \in FileTexts
    /\ A = <<>> /\ B = <<>> /\ ret = NoRet
    /\ win = None /\ line = <<>> /\ parsed = None
    /\ NoWorld /\ NoRun

\* A.fromstr(buf)
Fromstr ==
    /\ Len(WinList_fromstr(A, buf)) <= MaxLen
    /\ A' = WinList_fromstr(A, buf)
    /\ ret' = [op |-> "fromstr", val |-> Len(A')]
    /\ UNCHANGED <<buf, ftext, B, recVars, xwins, dir, now, runVars>>

\* B.fromfile(fn), fn a readable file holding ftext
FromfileList ==
    /\ Len(WinList_fromfile(B, ftext)) <= MaxLen
    /\ B' = WinList_fromfile(B, ftext)
    /\ ret' = [op |-> "fromfile", val |-> Len(B')]
    /\ UNCHANGED <<buf, ftext, A, recVars, xwins, dir, now, runVars>>

\* A += w
Iadd ==
    \E w \in {Win_fromstr(LineA), Win_fromstr(LineA2), Win_fromstr(LineB)} :
        /\ Len(A) < MaxLen
        /\ A' = WinList_iadd(A, w).wl
        /\ ret' = [op |-> "iadd",
                   val |-> [w |-> w, raised |-> WinList_iadd(A, w).raised]]
        /\ UNCHANGED <<buf, ftext, B, recVars, xwins, dir, now, runVars>>

\* A == B, B == A, A == A, B == B
Compare ==
    /\ ret' = [op |-> "eq",
               val |-> [AB |-> WinList_eq(A, B), BA |-> WinList_eq(B, A),
                        AA |-> WinList_eq(A, A), BB |-> WinList_eq(B, B)]]
    /\ UNCHANGED <<buf, ftext, A, B, recVars, xwins, dir, now, runVars>>

\* A.tofile(fn), with fn a path that can be opened and written, one that
\* cannot be opened, or one on which a write fails
TofileList ==
    \E fault \in {"", "open", "write"}, at \in 1..MaxLen :
        /\ at <= Len(A) \/ (at = 1 /\ fault # "write")
        /\ ret' = [op |-> "tofile",
                   val |-> [fault |-> fault, at |-> at,
                            res |-> WinList_tofile_call(A, fault, at)]]
        /\ UNCHANGED <<buf, ftext, A, B, recVars, xwins, dir, now, runVars>>

NextList == Fromstr \/ FromfileList \/ Iadd \/ Compare \/ TofileList

SpecList == InitList /\ [][NextList]_vars

HasSep(s) == Find(s, CommaSpace) # 0

\* C10 as stated: for any record r, whatever its 8 persisted fields hold,
\* _fromfile(r._tofile()) is a record for which cmp_all(r) is true.
C10_RoundTrip == parsed # None => cmp_all(parsed, win)

\* C10 amended: the round trip holds for every record whose first seven
\* persisted fields (desktop, shaded, x, y, w, h, cls) hold no comma-space;
\* the title may hold it, and any field may be empty.
C10_RoundTripUpToTitle ==
    (/\ parsed # None
     /\ \A i \in 1..(Len(Win_storefields) - 1) :
            ~HasSep(Win_stored_tuple(win)[i]))
    => cmp_all(parsed, win)

\* a record with an empty class and a comma-space in its title came back equal
C10_Witness ==
    /\ parsed # None
    /\ win.cls = <<>>
    /\ HasSep(win.title)
    /\ cmp_all(parsed, win)


\* C5 as stated: A == A is true for every collection A, the empty one
\* included, and A == B has the value of B == A for every pair.
C5_EqReflexiveSymmetric ==
    ret.op = "eq" =>
        /\ ret.val.AA
        /\ ret.val.BB
        /\ ret.val.AB = ret.val.BA

SameIdentity(a, b) == a.title = b.title /\ a.cls = b.cls

NoDup(wl) ==
    \A i, j \in 1..Len(wl) : i # j => ~SameIdentity(wl[i], wl[j])

\* C6 as stated: a collection never holds two records with equal title and
\* class, whichever way it was built.
C6_NeverDuplicates == NoDup(A) /\ NoDup(B)

\* C6 amended: add keeps a duplicate-free collection duplicate-free: adding
\* a record whose identity is present raises WinDuplicate and leaves the
\* collection as it was, any other record is appended.  (fromstr and
\* fromfile append one record per non-empty line without that test.)
C6_AddKeepsDedup ==
    [][ret'.op = "iadd" =>
        LET w == ret'.val.w
            present == \E i \in 1..Len(A) : SameIdentity(A[i], w)
        IN /\ present => ret'.val.raised = "WinDuplicate" /\ A' = A
           /\ ~present => ret'.val.raised = NoExc /\ A' = Append(A, w)
           /\ NoDup(A) => NoDup(A')]_vars

\* an add was refused as a duplicate
C6_Witness ==
    /\ ret.op = "iadd"
    /\ ret.val.raised = "WinDuplicate"
    /\ A # <<>>
    /\ NoDup(A)

\* the non-empty lines of a text that have at least n fields
FullLive(text) ==
    {i \in 1..Len(splitlines(text)) :
        Len(split_ws(splitlines(text)[i], Len(text))) >= Len(Win_fields) - 1}

FullStored(text) ==
    {i \in 1..Len(splitlines(text)) :
        Len(split(rstrip(splitlines(text)[i]), CommaSpace, Len(text)))
            >= Len(Win_storefields)}

\* C8 as stated: a non-empty line with fewer fields than the format has adds
\* no record and is not counted; the other lines are loaded.
C8_ShortLinesSkipped ==
    [][/\ ret'.op = "fromstr" =>
            /\ Len(A') = Len(A) + Cardinality(FullLive(buf))
            /\ ret'.val = Len(A')
       /\ ret'.op = "fromfile" =>
            /\ Len(B') = Len(B) + Cardinality(FullStored(ftext))
            /\ ret'.val = Len(B')]_vars


\* C1 as stated: a store that follows a store without force, with the same
\* selectors and the same windows, writes no session file; the directory
\* stays as the first store left it.
C1_StoreIdempotent ==
    [][(/\ argv.cmd = "store" /\ status = 0
        /\ argv'.cmd = "store" /\ status' = 0
        /\ gpar' = gpar /\ ~gpar.force
        /\ curlist' = curlist)
       => dir' = dir]_vars

\* does window xw satisfy the selectors g
Selected(xw, g) ==
    IF g.bracket THEN bracket_match(xw.title) # <<>>
    ELSE IF g.classes # <<>>
    THEN \E i \in 1..Len(g.classes) :
            IF g.regexp THEN re_match(g.classes[i], xw.cls)
            ELSE fnmatch(xw.cls, g.classes[i])
    ELSE IF g.titles # <<>>
    THEN \E i \in 1..Len(g.titles) :
            IF g.regexp THEN re_match(g.titles[i], xw.title)
            ELSE fnmatch(xw.title, g.titles[i])
    ELSE TRUE

\* the title a kept window has in the filter's output
KeptTitle(xw, g) == IF g.bracket THEN bracket_match(xw.title) ELSE xw.title

\* C7 as stated: every window that satisfies the selectors has its identity
\* in the output of the filter, whether or not a window of equal identity
\* was met before it.
C7_OnlyDuplicateDropped ==
    (argv.cmd = "curlist" /\ status \in {0, 3}) =>
        \A i \in 1..Len(xwins) :
            Selected(xwins[i], gpar) =>
                \E j \in 1..Len(curlist) :
                    /\ curlist[j].cls = xwins[i].cls
                    /\ curlist[j].title = KeptTitle(xwins[i], gpar)

\* the records of the session restore picked
Restored == WinList_fromfile(<<>>, dir.files[wmlstfn])

\* the live filtered records with the title and class of stored record s
LiveMatches(s) ==
    {c \in {curlist[i] : i \in 1..Len(curlist)} :
        c.title = s.title /\ c.cls = s.cls}

\* C2: the requests a restore has issued are, for every record s of the
\* session and the live record c of the same title and class, a move of c
\* to s.desktop iff the desktops differ, a geometry adjustment of c to the
\* geometry of s iff one of x, y, w, h differs, and a shade toggle of c iff
\* the shaded flags differ; there is no other request, and none for a
\* record without such a c.
C2_Reconciliation ==
    (argv.cmd = "restore" /\ status = 0) =>
        {issued[i] : i \in 1..Len(issued)} =
            UNION {UNION {
                (IF c.desktop # s.desktop
                 THEN {[op |-> "-t", winid |-> c.winid, arg |-> s.desktop]}
                 ELSE {})
                \cup
                (IF <<c.x, c.y, c.w, c.h>> # <<s.x, s.y, s.w, s.h>>
                 THEN {[op |-> "-e", winid |-> c.winid, arg |-> geostr(s)]}
                 ELSE {})
                \cup
                (IF c.shaded # s.shaded
                 THEN {[op |-> "-b", winid |-> c.winid, arg |-> <<"t">>]}
                 ELSE {})
                : c \in LiveMatches(s)}
              : s \in {Restored[i] : i \in 1..Len(Restored)}}

\* a restore moved, resized and toggled one window, and found another stored
\* window closed
C2_Witness ==
    /\ argv.cmd = "restore" /\ status = 0
    /\ Len(issued) = 3
    /\ {issued[i].op : i \in 1..Len(issued)} = {"-t", "-e", "-b"}
    /\ \E i \in 1..Len(Restored) : LiveMatches(Restored[i]) = {}

Rank(op) == CASE op = "-t" -> 1 [] op = "-e" -> 2 [] op = "-b" -> 3

Sessions == store_filelist(dir.files, 0)

\* restore picked session i of Sessions
Picked(i) == status = 0 /\ wmlstfn = Sessions[i]

NoSuchSession == status = 2 /\ exitmsg = "no such session"

\* C4: with n > 0 sessions, restore without argument picks the last one;
\* with an integer k it picks the one at index k, counted from the end when
\* k is negative, and fails with "no such session" when k is outside
\* [-n, n-1]; with any other argument it picks the session whose file name,
\* or file name without extension, is the argument, and fails with "no such
\* session" when there is none.
C4_SessionSelection ==
    (argv.cmd = "restore" /\ Sessions # <<>>) =>
        LET n == Len(Sessions)
            p == argv.params
        IN /\ p = <<>> => Picked(n)
           /\ \A k \in Indexes :
                p = <<str(k)>> =>
                    IF 0 <= k /\ k <= n - 1 THEN Picked(k + 1)
                    ELSE IF -n <= k /\ k < 0 THEN Picked(n + k + 1)
                    ELSE NoSuchSession
           /\ (p # <<>> /\ \A k \in Indexes : p # <<str(k)>>) =>
                LET named == {i \in 1..n : \/ Sessions[i] = p[1]
                                           \/ Sessions[i] = p[1] \o Ext}
                IN IF named = {} THEN NoSuchSession
                   ELSE \A i \in named : Picked(i)

\* of three sessions the one before the last was picked by index -2
C4_Witness ==
    /\ argv.cmd = "restore"
    /\ argv.params = <<str(-2)>>
    /\ Len(Sessions) = 3
    /\ Picked(2)

\* the failure class of the exit taken, "" for the exits that are in none
\* of the seven classes
FailureClass(msg) ==
    CASE msg = "getopt.error" -> "usage error"
      [] msg \in {"missing command", "invalid command"} -> "command"
      [] msg \in {"no match for selected windows", "no match"} -> "no match"
      [] msg \in {"no stored sessions (yet), try store", "no such session"}
            -> "session"
      [] msg \in {"wmctrl -h: program not found",
                  "xprop -version: program not found"} -> "gateway"
      [] msg = "KeyboardInterrupt" -> "interrupt"
      [] msg = "internal error:" -> "internal"
      [] OTHER -> ""

SharedStatus == {"command", "session", "gateway"}

LookupErrors ==
    {"no stored sessions (yet), try store", "no such session",
     "no match for selected windows", "no match"}

\* C11: a run that ends with "no stored sessions", "no such session" or no
\* matching windows has sent no request to the window manager, has left
\* every window as it was, and has left the session directory as it was.
C11_LookupErrorsNoEffects ==
    [][exitmsg' \in LookupErrors =>
        /\ issued' = <<>>
        /\ xwins' = xwins
        /\ dir' = dir]_vars

\* restore was refused for "no such session" while the last session differs
\* from the windows, so that restoring it would have sent requests
C11_Witness ==
    /\ argv.cmd = "restore"
    /\ status = 2 /\ exitmsg = "no such session"
    /\ issued = <<>>
    /\ restore(<<>>, gpar, "ok", FALSE, xwins, dir, now).issued # <<>>


\* C12: a store that changes the session directory adds exactly one file,
\* under a name that was not there, and leaves the name and the text of
\* every file that was there as they were; so also when the clock has not
\* advanced since the store before.
C12_StoreNeverOverwrites ==
    [][(argv'.cmd = "store" /\ dir' # dir) =>
        /\ \E fn \in DOMAIN dir'.files \ DOMAIN dir.files :
              DOMAIN dir'.files = DOMAIN dir.files \cup {fn}
        /\ \A fn \in DOMAIN dir.files : dir'.files[fn] = dir.files[fn]
        /\ dir'.exists = dir.exists]_vars

\* a forced store found the name of the current second taken and wrote its
\* session under the name of the next one
C12_Witness ==
    /\ argv.cmd = "store" /\ exitmsg = "stored" /\ gpar.force
    /\ Cardinality(DOMAIN dir.files) >= 2
    /\ strftime(now) \o Ext \in DOMAIN dir.files
    /\ \A t \in 0..now : strftime(t) \o Ext \in DOMAIN dir.files


\* C13 as stated: when tofile cannot open its file, or cannot write to it,
\* no exception leaves tofile and it returns 0.
C13_WriteFailuresContained ==
    (ret.op = "tofile" /\ A # <<>> /\ ret.val.fault # "") =>
        /\ ret.val.res.raised = NoExc
        /\ ret.val.res.ret = 0


\* is the window of that id shaded
IsShaded(X, winid) ==
    \E i \in 1..Len(X) :
        X[i].winid = winid /\ X[i].wmstate \in {SHADED, SHADED_ABOVE}

\* C14 as stated: after a restore whose requests have all taken effect,
\* every live window that a record of the session matches has the desktop,
\* the geometry and the shaded state of that record, and a second restore
\* of the same session with the same selectors sends no request.
C14_RestoreConverges ==
    [][\A params \in {argv'.params}, g \in {gpar'}, after \in {xwins'},
          cur \in {curlist'}, fn \in {wmlstfn'}, reqs \in {issued'},
          msg \in {exitmsg'} :
        (/\ argv'.cmd = "restore" /\ status' = 0
         /\ dir' = dir /\ now' = now
         /\ Outcome(0, msg, cur, fn, reqs, after, dir, now)
              = restore(params, g, "ok", FALSE, xwins, dir, now))
        => \A sto \in {WinList_fromfile(<<>>, dir.files[fn])} :
           /\ \A i \in 1..Len(sto) :
                \A c \in {c \in {cur[j] : j \in 1..Len(cur)} :
                             c.title = sto[i].title /\ c.cls = sto[i].cls} :
                   \E k \in 1..Len(after) :
                      /\ after[k].winid = c.winid
                      /\ after[k].desktop = sto[i].desktop
                      /\ <<after[k].x, after[k].y, after[k].w, after[k].h>>
                           = <<sto[i].x, sto[i].y, sto[i].w, sto[i].h>>
                      /\ IsShaded(after, c.winid) <=> sto[i].shaded = <<"S">>
           /\ restore(params, g, "ok", FALSE, after, dir, now).issued
                = <<>>]_vars

====
